---- MODULE Spec2Model ----
(***************************************************************************)
(* Model of the RSS backend of Perceval (perceval/backends/core/rss.py):   *)
(* the live fetch generator RSS.fetch, the replay generator                *)
(* RSS.fetch_from_cache, the metadata decorator that wraps both, the        *)
(* client RSSClient.get_entries, the cache queue / cache collaborator and  *)
(* the command RSSCommand (__init__ and run).                              *)
(*                                                                         *)
(* A generator is modelled by its program counter: the consumer starts it  *)
(* (fetch / fetch_from_cache), pulls entries (Pull) and may stop at a      *)
(* suspension point (Abandon).  Between two suspension points the body     *)
(* runs statement by statement; the program is single-threaded, so nothing *)
(* else runs in between.                                                   *)
(***************************************************************************)
EXTENDS Integers, Sequences, FiniteSets, TLC

\* Longest feed (number of entries in one payload) the network may serve.
MaxEntries == 2

(***************************************************************************)
(* Data: entries, payloads, responses                                      *)
(***************************************************************************)

Absent == "<absent>"

\* The entries a feed may hold: two well-formed ones, one without 'link',
\* one without 'published', one whose 'published' is not a date.
EntrySet ==
  { [link |-> "http://x/1", published |-> "2020-01-01T00:00:00Z"],
    [link |-> "http://x/2", published |-> "2020-01-02T00:00:00Z"],
    [link |-> Absent,       published |-> "2020-01-01T00:00:00Z"],
    [link |-> "http://x/1", published |-> Absent],
    [link |-> "http://x/2", published |-> "not a date"] }

RECURSIVE SeqsUpTo(_, _)
SeqsUpTo(S, n) ==
  IF n = 0 THEN { <<>> }
  ELSE LET shorter == SeqsUpTo(S, n - 1)
       IN  shorter \cup { Append(s, e) : s \in { t \in shorter : Len(t) = n - 1 }, e \in S }

\* A raw payload: the text of a feed document.  kind "feed" is a well-formed
\* RSS/Atom document holding items; "empty" is the empty string; "malformed"
\* is decodable text that is no feed; "undecodable" cannot be decoded.
EmptyString == [kind |-> "empty", items |-> <<>>]

Payloads ==
  { [kind |-> "feed", items |-> s] : s \in SeqsUpTo(EntrySet, MaxEntries) }
    \cup { EmptyString,
           [kind |-> "malformed",   items |-> <<>>],
           [kind |-> "undecodable", items |-> <<>>] }

\* What requests.get may produce: a connection failure (status 0, no
\* response), an error status, or a 200 response with a body.
ConnectionFailure == [status |-> 0, text |-> EmptyString]

Responses ==
  { [status |-> 200, text |-> p] : p \in Payloads }
    \cup { [status |-> 404, text |-> EmptyString],
           [status |-> 500, text |-> EmptyString],
           ConnectionFailure }

NoResponse == [status |-> -1, text |-> EmptyString]

NoError == "none"
NetworkErrors  == { "ConnectionError", "HTTPError" }
MetadataErrors == { "KeyError", "DateParseError" }

VARIABLES
  hasCache,      \* the backend was built with a cache (self.cache is not None)
  cache,         \* persistent cache: the committed unit, a sequence of payloads
  cache_queue,   \* self.cache_queue: payloads pending commit
  mode,          \* "none", "live" (fetch) or "replay" (fetch_from_cache)
  pc,            \* position of the current generator
  resp,          \* response of the network request of this call
  raw_entries,   \* local raw_entries / cache_entries
  entries,       \* local entries: the parsed items
  pos,           \* number of items the inner for loop has taken
  delivered,     \* records the consumer has received in this call
  err,           \* error surfaced to the consumer by this call
  log,           \* operations performed by this call, in order
  cacheAtStart,  \* history: the persistent cache when this call was made
  queueAtStart,  \* history: the pending queue when this call was made
  prevReplay,    \* history: outcome of the last completed replay, no live fetch since
  committed,     \* history: the body fetched by the last live fetch that committed
  replaced,      \* history: that commit replaced a payload holding other entries
  args,          \* RSSCommand.parsed_args: no_cache, clean_cache, fetch_cache
  cli,           \* RSSCommand: "off" (none), "new", "built", "returned", "raised"
  ops,           \* cache operations the command has invoked, in order
  backup,        \* the backup copy the cache keeps: << contents >>, <<>> when none
  written,       \* number of items run has written to the outfile
  wfail,         \* a write to the outfile raised IOError
  surfaced       \* the error run raised to its caller

cliVars == << args, cli, ops, backup, written, wfail, surfaced >>

vars == << hasCache, cache, cache_queue, mode, pc, resp, raw_entries, entries,
           pos, delivered, err, log, cacheAtStart, queueAtStart, prevReplay,
           committed, replaced, args, cli, ops, backup, written, wfail, surfaced >>

(***************************************************************************)
(* Pure functions                                                          *)
(***************************************************************************)

\* feedparser.parse(raw)['entries']: the items of a feed in feed order;
\* lenient, a payload that is no feed yields no entries.
ParseFails(raw) == raw.kind = "undecodable"

parse_feed(raw) == IF raw.kind = "feed" THEN raw.items ELSE <<>>

\* utils.str_to_datetime followed by datetime.timestamp().
ValidDates == { "2020-01-01T00:00:00Z", "2020-01-02T00:00:00Z" }

str_to_datetime(s) ==
  CASE s = "2020-01-01T00:00:00Z" -> 1577836800
    [] s = "2020-01-02T00:00:00Z" -> 1577923200
    [] OTHER -> -1

metadata_id(item) == item.link

\* Mutant: the date is read as local time, one hour off UTC.
metadata_updated_on_local(item) == str_to_datetime(item.published) + 3600

metadata_updated_on(item) == str_to_datetime(item.published)

metadata_category(item) == "entry"

\* The error the metadata functions raise on item, NoError when they succeed.
MetadataError(item) ==
  IF item.link = Absent \/ item.published = Absent THEN "KeyError"
  ELSE IF item.published \notin ValidDates THEN "DateParseError"
  ELSE NoError

\* The record the decorator yields for item.
Envelope(item) ==
  [ id         |-> metadata_id(item),
    updated_on |-> metadata_updated_on(item),
    category   |-> metadata_category(item),
    entry      |-> item ]

\* requests.Response.raise_for_status
RaisesForStatus(r) == r.status >= 400 /\ r.status < 600

\* Cache queue and cache collaborator.
PurgeQueue(q) == <<>>

PushQueue(q, payload) == Append(q, payload)

\* commit of the pending buffer as the single retrievable unit
Commit(c, q) == q

\* next(cache.retrieve()): the first payload of the committed unit
CacheIsEmpty(c) == c = <<>>

Retrieve(c) == Head(c)

(***************************************************************************)
(* Initial state: a backend built with or without a cache (RSS.__init__),   *)
(* nothing committed yet, no generator made.                               *)
(***************************************************************************)
Init ==
  /\ hasCache \in BOOLEAN
  /\ cache = <<>>
  /\ cache_queue = <<>>
  /\ mode = "none"
  /\ pc = "idle"
  /\ resp = NoResponse
  /\ raw_entries = EmptyString
  /\ entries = <<>>
  /\ pos = 0
  /\ delivered = <<>>
  /\ err = NoError
  /\ log = <<>>
  /\ cacheAtStart = <<>>
  /\ queueAtStart = <<>>
  /\ prevReplay = <<>>
  /\ committed = <<>>
  /\ replaced = FALSE
  /\ args = [no_cache |-> ~hasCache, clean_cache |-> FALSE, fetch_cache |-> FALSE]
  /\ cli = "off"
  /\ ops = <<>>
  /\ backup = <<>>
  /\ written = 0
  /\ wfail = FALSE
  /\ surfaced = NoError

Resting == pc \in { "idle", "done", "abandoned" }

Suspended == pc \in { "start", "yielded" }

NewCall ==
  /\ resp' = NoResponse
  /\ raw_entries' = EmptyString
  /\ entries' = <<>>
  /\ pos' = 0
  /\ delivered' = <<>>
  /\ err' = NoError
  /\ log' = <<>>
  /\ cacheAtStart' = cache
  /\ queueAtStart' = cache_queue

Fail(e) == /\ err' = e
           /\ pc' = "done"

(***************************************************************************)
(* The consumer                                                            *)
(***************************************************************************)

\* Mutant: fetch is no generator; it purges the queue when it is called.
fetch_eager ==
  /\ Resting
  /\ mode' = "live"
  /\ pc' = "start"
  /\ NewCall
  /\ prevReplay' = <<>>
  /\ cache_queue' = PurgeQueue(cache_queue)
  /\ UNCHANGED << hasCache, cache, committed, replaced >>
  /\ UNCHANGED cliVars

\* backend.fetch(): makes the generator; no statement of its body runs yet.
fetch ==
  /\ Resting
  /\ mode' = "live"
  /\ pc' = "start"
  /\ NewCall
  /\ prevReplay' = <<>>
  /\ UNCHANGED << hasCache, cache, cache_queue, committed, replaced >>
  /\ UNCHANGED cliVars

\* backend.fetch_from_cache(): makes the generator.  The outcome of a replay
\* that ran to its end is remembered for the next one.
fetch_from_cache ==
  /\ Resting
  /\ mode' = "replay"
  /\ pc' = "start"
  /\ NewCall
  /\ prevReplay' = IF mode = "replay" /\ pc = "done"
                   THEN << [out |-> delivered, err |-> err] >>
                   ELSE prevReplay
  /\ UNCHANGED << hasCache, cache, cache_queue, committed, replaced >>
  /\ UNCHANGED cliVars

\* next() on the generator: the body runs on from where it is suspended.
Pull ==
  /\ Suspended
  /\ pc' = IF pc = "yielded" THEN "loop"
           ELSE IF mode = "live" THEN "purge" ELSE "check"
  /\ UNCHANGED << hasCache, cache, cache_queue, mode, resp, raw_entries, entries,
                  pos, delivered, err, log, cacheAtStart, queueAtStart, prevReplay, committed, replaced >>
  /\ UNCHANGED cliVars

\* The consumer stops iterating: the suspended generator is dropped.
Abandon ==
  /\ Suspended
  /\ pc' = "abandoned"
  /\ UNCHANGED << hasCache, cache, cache_queue, mode, resp, raw_entries, entries,
                  pos, delivered, err, log, cacheAtStart, queueAtStart, prevReplay, committed, replaced >>
  /\ UNCHANGED cliVars

(***************************************************************************)
(* RSS.fetch                                                               *)
(***************************************************************************)

\* Mutant: the pending queue is not purged at the start of a fetch.
purge_cache_queue_keep ==
  /\ mode = "live" /\ pc = "purge"
  /\ cache_queue' = cache_queue
  /\ log' = Append(log, "purge")
  /\ pc' = "get"
  /\ UNCHANGED << hasCache, cache, mode, resp, raw_entries, entries, pos,
                  delivered, err, cacheAtStart, queueAtStart, prevReplay, committed, replaced >>
  /\ UNCHANGED cliVars

\* self._purge_cache_queue()
purge_cache_queue ==
  /\ mode = "live" /\ pc = "purge"
  /\ cache_queue' = PurgeQueue(cache_queue)
  /\ log' = Append(log, "purge")
  /\ pc' = "get"
  /\ UNCHANGED << hasCache, cache, mode, resp, raw_entries, entries, pos,
                  delivered, err, cacheAtStart, queueAtStart, prevReplay, committed, replaced >>
  /\ UNCHANGED cliVars

\* Mutant: the status of the response is not checked (no raise_for_status).
get_entries_no_raise ==
  /\ mode = "live" /\ pc = "get"
  /\ \E r \in Responses :
       /\ resp' = r
       /\ IF r = ConnectionFailure
          THEN Fail("ConnectionError") /\ UNCHANGED raw_entries
          ELSE /\ raw_entries' = r.text
               /\ pc' = "push"
               /\ UNCHANGED err
  /\ log' = Append(log, "get")
  /\ UNCHANGED << hasCache, cache, cache_queue, mode, entries, pos, delivered,
                  cacheAtStart, queueAtStart, prevReplay, committed, replaced >>
  /\ UNCHANGED cliVars

\* raw_entries = self.client.get_entries(): one GET, raise_for_status, text
get_entries ==
  /\ mode = "live" /\ pc = "get"
  /\ \E r \in Responses :
       /\ resp' = r
       /\ IF r = ConnectionFailure
          THEN Fail("ConnectionError") /\ UNCHANGED raw_entries
          ELSE IF RaisesForStatus(r)
          THEN Fail("HTTPError") /\ UNCHANGED raw_entries
          ELSE /\ raw_entries' = r.text
               /\ pc' = "push"
               /\ UNCHANGED err
  /\ log' = Append(log, "get")
  /\ UNCHANGED << hasCache, cache, cache_queue, mode, entries, pos, delivered,
                  cacheAtStart, queueAtStart, prevReplay, committed, replaced >>
  /\ UNCHANGED cliVars

\* Mutant: push writes the payload through to the persistent cache.
push_cache_queue_through ==
  /\ mode = "live" /\ pc = "push"
  /\ cache_queue' = PushQueue(cache_queue, raw_entries)
  /\ cache' = IF hasCache THEN << raw_entries >> ELSE cache
  /\ log' = Append(log, "push")
  /\ pc' = "parse"
  /\ UNCHANGED << hasCache, mode, resp, raw_entries, entries, pos,
                  delivered, err, cacheAtStart, queueAtStart, prevReplay, committed, replaced >>
  /\ UNCHANGED cliVars

\* self._push_cache_queue(raw_entries)
push_cache_queue ==
  /\ mode = "live" /\ pc = "push"
  /\ cache_queue' = PushQueue(cache_queue, raw_entries)
  /\ log' = Append(log, "push")
  /\ pc' = "parse"
  /\ UNCHANGED << hasCache, cache, mode, resp, raw_entries, entries, pos,
                  delivered, err, cacheAtStart, queueAtStart, prevReplay, committed, replaced >>
  /\ UNCHANGED cliVars

\* Mutant: the flush is left out, the loop follows the parse.
parse_entries_skip_flush ==
  /\ mode = "live" /\ pc = "parse"
  /\ IF ParseFails(raw_entries)
     THEN Fail("ParseError") /\ UNCHANGED entries
     ELSE /\ entries' = parse_feed(raw_entries)
          /\ pc' = "loop"
          /\ UNCHANGED err
  /\ log' = Append(log, "parse")
  /\ UNCHANGED << hasCache, cache, cache_queue, mode, resp, raw_entries, pos,
                  delivered, cacheAtStart, queueAtStart, prevReplay, committed, replaced >>
  /\ UNCHANGED cliVars

\* Mutant: a parse failure is swallowed and the fetch goes on with no entries.
parse_entries_lenient ==
  /\ mode = "live" /\ pc = "parse"
  /\ entries' = parse_feed(raw_entries)
  /\ pc' = "flush"
  /\ log' = Append(log, "parse")
  /\ UNCHANGED << hasCache, cache, cache_queue, mode, resp, raw_entries, pos,
                  delivered, err, cacheAtStart, queueAtStart, prevReplay, committed, replaced >>
  /\ UNCHANGED cliVars

\* Mutant: a payload that is no feed is a parse error.
parse_entries_strict ==
  /\ mode = "live" /\ pc = "parse"
  /\ IF raw_entries.kind # "feed"
     THEN Fail("ParseError") /\ UNCHANGED entries
     ELSE /\ entries' = parse_feed(raw_entries)
          /\ pc' = "flush"
          /\ UNCHANGED err
  /\ log' = Append(log, "parse")
  /\ UNCHANGED << hasCache, cache, cache_queue, mode, resp, raw_entries, pos,
                  delivered, cacheAtStart, queueAtStart, prevReplay, committed, replaced >>
  /\ UNCHANGED cliVars

\* entries = self.parse_feed(raw_entries)['entries']
parse_entries ==
  /\ mode = "live" /\ pc = "parse"
  /\ IF ParseFails(raw_entries)
     THEN Fail("ParseError") /\ UNCHANGED entries
     ELSE /\ entries' = parse_feed(raw_entries)
          /\ pc' = "flush"
          /\ UNCHANGED err
  /\ log' = Append(log, "parse")
  /\ UNCHANGED << hasCache, cache, cache_queue, mode, resp, raw_entries, pos,
                  delivered, cacheAtStart, queueAtStart, prevReplay, committed, replaced >>
  /\ UNCHANGED cliVars

\* Mutant: the flush adds the pending payloads to what the cache holds.
flush_cache_queue_append ==
  /\ mode = "live" /\ pc = "flush"
  /\ IF hasCache
     THEN /\ cache' = cache \o cache_queue
          /\ committed' = << resp.text >>
          /\ replaced' = ( committed # <<>>
                           /\ parse_feed(committed[1]) # parse_feed(resp.text) )
     ELSE UNCHANGED << cache, committed, replaced >>
  /\ cache_queue' = <<>>
  /\ log' = Append(log, "flush")
  /\ pc' = "loop"
  /\ UNCHANGED << hasCache, mode, resp, raw_entries, entries, pos, delivered,
                  err, cacheAtStart, queueAtStart, prevReplay >>
  /\ UNCHANGED cliVars

\* self._flush_cache_queue()
flush_cache_queue ==
  /\ mode = "live" /\ pc = "flush"
  /\ IF hasCache
     THEN /\ cache' = Commit(cache, cache_queue)
          /\ committed' = << resp.text >>
          /\ replaced' = ( committed # <<>>
                           /\ parse_feed(committed[1]) # parse_feed(resp.text) )
     ELSE UNCHANGED << cache, committed, replaced >>
  /\ cache_queue' = <<>>
  /\ log' = Append(log, "flush")
  /\ pc' = "loop"
  /\ UNCHANGED << hasCache, mode, resp, raw_entries, entries, pos, delivered,
                  err, cacheAtStart, queueAtStart, prevReplay >>
  /\ UNCHANGED cliVars

\* Mutant: the loop starts at the second entry.
NextItemSkipFirst ==
  /\ pc = "loop"
  /\ LET from == IF pos = 0 THEN 1 ELSE pos
     IN  IF from < Len(entries)
         THEN pos' = from + 1 /\ pc' = "meta"
         ELSE pos' = pos /\ pc' = "done"
  /\ UNCHANGED << hasCache, cache, cache_queue, mode, resp, raw_entries, entries,
                  delivered, err, log, cacheAtStart, queueAtStart, prevReplay, committed, replaced >>
  /\ UNCHANGED cliVars

fetch_next_item_skip_first == mode = "live" /\ NextItemSkipFirst

\* for item in entries: yield item; nentries += 1
NextItem ==
  /\ pc = "loop"
  /\ IF pos < Len(entries)
     THEN pos' = pos + 1 /\ pc' = "meta"
     ELSE pos' = pos /\ pc' = "done"
  /\ UNCHANGED << hasCache, cache, cache_queue, mode, resp, raw_entries, entries,
                  delivered, err, log, cacheAtStart, queueAtStart, prevReplay, committed, replaced >>
  /\ UNCHANGED cliVars

fetch_next_item == mode = "live" /\ NextItem

(***************************************************************************)
(* RSS.fetch_from_cache                                                    *)
(***************************************************************************)

\* Mutant: the test for a missing cache is left out.
check_cache_no_test ==
  /\ mode = "replay" /\ pc = "check"
  /\ pc' = "retrieve"
  /\ log' = Append(log, "check")
  /\ UNCHANGED << hasCache, cache, cache_queue, mode, resp, raw_entries, entries,
                  pos, delivered, err, cacheAtStart, queueAtStart, prevReplay, committed, replaced >>
  /\ UNCHANGED cliVars

\* Mutant: the replay purges the pending queue as the live fetch does.
check_cache_purging ==
  /\ mode = "replay" /\ pc = "check"
  /\ IF ~hasCache
     THEN Fail("CacheError")
     ELSE pc' = "retrieve" /\ UNCHANGED err
  /\ cache_queue' = PurgeQueue(cache_queue)
  /\ log' = Append(log, "check")
  /\ UNCHANGED << hasCache, cache, mode, resp, raw_entries, entries,
                  pos, delivered, cacheAtStart, queueAtStart, prevReplay, committed, replaced >>
  /\ UNCHANGED cliVars

\* if not self.cache: raise CacheError(cause="cache instance was not provided")
check_cache ==
  /\ mode = "replay" /\ pc = "check"
  /\ IF ~hasCache
     THEN Fail("CacheError")
     ELSE pc' = "retrieve" /\ UNCHANGED err
  /\ log' = Append(log, "check")
  /\ UNCHANGED << hasCache, cache, cache_queue, mode, resp, raw_entries, entries,
                  pos, delivered, cacheAtStart, queueAtStart, prevReplay, committed, replaced >>
  /\ UNCHANGED cliVars

\* Mutant: retrieving a payload takes it out of the cache.
retrieve_consuming ==
  /\ mode = "replay" /\ pc = "retrieve"
  /\ IF CacheIsEmpty(cache)
     THEN Fail("NotFound") /\ UNCHANGED << raw_entries, cache >>
     ELSE /\ raw_entries' = Retrieve(cache)
          /\ cache' = Tail(cache)
          /\ pc' = "parse"
          /\ UNCHANGED err
  /\ log' = Append(log, "retrieve")
  /\ UNCHANGED << hasCache, cache_queue, mode, resp, entries, pos, delivered,
                  cacheAtStart, queueAtStart, prevReplay, committed, replaced >>
  /\ UNCHANGED cliVars

\* cache_entries = next(self.cache.retrieve())
retrieve ==
  /\ mode = "replay" /\ pc = "retrieve"
  /\ IF CacheIsEmpty(cache)
     THEN Fail("NotFound") /\ UNCHANGED raw_entries
     ELSE /\ raw_entries' = Retrieve(cache)
          /\ pc' = "parse"
          /\ UNCHANGED err
  /\ cache' = cache
  /\ log' = Append(log, "retrieve")
  /\ UNCHANGED << hasCache, cache_queue, mode, resp, entries, pos, delivered,
                  cacheAtStart, queueAtStart, prevReplay, committed, replaced >>
  /\ UNCHANGED cliVars

\* entries = feedparser.parse(cache_entries)['entries']
parse_cached ==
  /\ mode = "replay" /\ pc = "parse"
  /\ IF ParseFails(raw_entries)
     THEN Fail("ParseError") /\ UNCHANGED entries
     ELSE /\ entries' = parse_feed(raw_entries)
          /\ pc' = "loop"
          /\ UNCHANGED err
  /\ log' = Append(log, "parse")
  /\ UNCHANGED << hasCache, cache, cache_queue, mode, resp, raw_entries, pos,
                  delivered, cacheAtStart, queueAtStart, prevReplay, committed, replaced >>
  /\ UNCHANGED cliVars

\* Mutant: the replay loop starts at the second entry.
cache_next_item_skip_first == mode = "replay" /\ NextItemSkipFirst

\* for item in entries: yield item
cache_next_item == mode = "replay" /\ NextItem

(***************************************************************************)
(* The metadata decorator wrapped around both generators: for each item    *)
(* the wrapped generator yields, compute its metadata, then yield it.      *)
(***************************************************************************)
metadata ==
  /\ pc = "meta"
  /\ LET item == entries[pos]
         e    == MetadataError(item)
     IN  IF e # NoError
         THEN /\ Fail(e)
              /\ log' = Append(log, "meta")
              /\ UNCHANGED delivered
         ELSE /\ delivered' = Append(delivered, Envelope(item))
              /\ log' = log \o << "meta", "yield" >>
              /\ pc' = "yielded"
              /\ UNCHANGED err
  /\ UNCHANGED << hasCache, cache, cache_queue, mode, resp, raw_entries, entries,
                  pos, cacheAtStart, queueAtStart, prevReplay, committed, replaced >>
  /\ UNCHANGED cliVars

Next ==
  \/ fetch
  \/ fetch_from_cache
  \/ Pull
  \/ Abandon
  \/ purge_cache_queue
  \/ get_entries
  \/ push_cache_queue
  \/ parse_entries
  \/ flush_cache_queue
  \/ fetch_next_item
  \/ check_cache
  \/ retrieve
  \/ parse_cached
  \/ cache_next_item
  \/ metadata

Spec == Init /\ [][Next]_vars

(***************************************************************************)
(* RSSCommand: the command builds the cache and the backend (__init__),    *)
(* then run makes one generator and consumes it to its end, writing each   *)
(* item to the outfile.                                                    *)
(***************************************************************************)

Arguments == [ no_cache : BOOLEAN, clean_cache : BOOLEAN, fetch_cache : BOOLEAN ]

\* What the cache at the cache path may hold when the command starts.
PriorCaches == { <<>> } \cup { << p >> : p \in { q \in Payloads : ~ParseFails(q) } }

\* Cache collaborator: backup keeps a copy, clean empties the cache, recover
\* restores the copy when there is one.
Backup(c) == << c >>

Clean(c) == <<>>

Recover(c, b) == IF b = <<>> THEN c ELSE b[1]

InitCLI ==
  /\ hasCache = FALSE
  /\ cache \in PriorCaches
  /\ cache_queue = <<>>
  /\ mode = "none"
  /\ pc = "idle"
  /\ resp = NoResponse
  /\ raw_entries = EmptyString
  /\ entries = <<>>
  /\ pos = 0
  /\ delivered = <<>>
  /\ err = NoError
  /\ log = <<>>
  /\ cacheAtStart = cache
  /\ queueAtStart = <<>>
  /\ prevReplay = <<>>
  /\ committed = <<>>
  /\ replaced = FALSE
  /\ args \in Arguments
  /\ cli = "new"
  /\ ops = <<>>
  /\ backup = <<>>
  /\ written = 0
  /\ wfail = FALSE
  /\ surfaced = NoError

\* Mutant: backup() is called whether or not the cache was cleaned.
RSSCommand_init_always_backup ==
  /\ cli = "new"
  /\ cli' = "built"
  /\ hasCache' = ~args.no_cache
  /\ IF ~args.no_cache
     THEN IF args.clean_cache
          THEN /\ cache' = Clean(cache)
               /\ backup' = Backup(Clean(cache))
               /\ ops' = << "clean", "backup" >>
          ELSE /\ backup' = Backup(cache)
               /\ ops' = << "backup" >>
               /\ UNCHANGED cache
     ELSE UNCHANGED << cache, backup, ops >>
  /\ UNCHANGED << cache_queue, mode, pc, resp, raw_entries, entries, pos,
                  delivered, err, log, cacheAtStart, queueAtStart, prevReplay,
                  committed, replaced, args, written, wfail, surfaced >>

\* RSSCommand.__init__: unless no_cache, make the cache and clean it or back
\* it up; build the backend with the cache or with None.
RSSCommand_init ==
  /\ cli = "new"
  /\ cli' = "built"
  /\ hasCache' = ~args.no_cache
  /\ IF ~args.no_cache
     THEN IF args.clean_cache
          THEN /\ cache' = Clean(cache)
               /\ ops' = << "clean" >>
               /\ UNCHANGED backup
          ELSE /\ backup' = Backup(cache)
               /\ ops' = << "backup" >>
               /\ UNCHANGED cache
     ELSE UNCHANGED << cache, backup, ops >>
  /\ UNCHANGED << cache_queue, mode, pc, resp, raw_entries, entries, pos,
                  delivered, err, log, cacheAtStart, queueAtStart, prevReplay,
                  committed, replaced, args, written, wfail, surfaced >>

\* entries = self.backend.fetch_from_cache()
run_fetch_from_cache ==
  /\ cli = "built" /\ pc = "idle"
  /\ args.fetch_cache
  /\ fetch_from_cache

\* entries = self.backend.fetch()
run_fetch ==
  /\ cli = "built" /\ pc = "idle"
  /\ ~args.fetch_cache
  /\ fetch

\* for item in entries: the next item is asked for once the last is written
run_next ==
  /\ cli = "built" /\ ~wfail
  /\ written = Len(delivered)
  /\ Pull

\* json.dumps(item); self.outfile.write(...): the write may raise IOError
run_write ==
  /\ cli = "built" /\ ~wfail
  /\ pc = "yielded" /\ written < Len(delivered)
  /\ \E ok \in BOOLEAN :
       IF ok THEN written' = written + 1 /\ wfail' = wfail
             ELSE written' = written /\ wfail' = TRUE
  /\ UNCHANGED << hasCache, cache, cache_queue, mode, pc, resp, raw_entries,
                  entries, pos, delivered, err, log, cacheAtStart, queueAtStart,
                  prevReplay, committed, replaced, args, cli, ops, backup, surfaced >>

\* The exception that reaches the try block of run, NoError when none.
Raised == IF wfail THEN "IOError"
          ELSE IF pc = "done" THEN err ELSE NoError

\* requests' ConnectionError derives from IOError.
IOErrors == { "IOError", "ConnectionError" }

\* The generator is exhausted: run returns.
run_return ==
  /\ cli = "built" /\ ~wfail
  /\ pc = "done" /\ err = NoError
  /\ cli' = "returned"
  /\ UNCHANGED << hasCache, cache, cache_queue, mode, pc, resp, raw_entries,
                  entries, pos, delivered, err, log, cacheAtStart, queueAtStart,
                  prevReplay, committed, replaced, args, ops, backup, written,
                  wfail, surfaced >>

\* except requests.exceptions.HTTPError as e:
\*     raise requests.exceptions.HTTPError(str(e.response.json()))
\* (response.json() itself raises ValueError on a body that is no JSON)
run_except_HTTPError ==
  /\ cli = "built"
  /\ Raised = "HTTPError"
  /\ cli' = "raised"
  /\ surfaced' \in { "HTTPError", "ValueError" }
  /\ UNCHANGED << hasCache, cache, cache_queue, mode, pc, resp, raw_entries,
                  entries, pos, delivered, err, log, cacheAtStart, queueAtStart,
                  prevReplay, committed, replaced, args, ops, backup, written,
                  wfail >>

\* except IOError as e: raise RuntimeError(str(e))
run_except_IOError ==
  /\ cli = "built"
  /\ Raised \in IOErrors
  /\ cli' = "raised"
  /\ surfaced' = "RuntimeError"
  /\ UNCHANGED << hasCache, cache, cache_queue, mode, pc, resp, raw_entries,
                  entries, pos, delivered, err, log, cacheAtStart, queueAtStart,
                  prevReplay, committed, replaced, args, ops, backup, written,
                  wfail >>

\* except Exception as e:
\*     if self.backend.cache: self.backend.cache.recover()
\*     raise RuntimeError(str(e))
run_except_Exception ==
  /\ cli = "built"
  /\ Raised \notin ({ NoError, "HTTPError" } \cup IOErrors)
  /\ IF hasCache
     THEN /\ cache' = Recover(cache, backup)
          /\ ops' = Append(ops, "recover")
     ELSE UNCHANGED << cache, ops >>
  /\ cli' = "raised"
  /\ surfaced' = "RuntimeError"
  /\ UNCHANGED << hasCache, cache_queue, mode, pc, resp, raw_entries,
                  entries, pos, delivered, err, log, cacheAtStart, queueAtStart,
                  prevReplay, committed, replaced, args, backup, written, wfail >>

NextCLI ==
  \/ RSSCommand_init
  \/ run_fetch
  \/ run_fetch_from_cache
  \/ run_next
  \/ run_write
  \/ run_return
  \/ run_except_HTTPError
  \/ run_except_IOError
  \/ run_except_Exception
  \/ purge_cache_queue
  \/ get_entries
  \/ push_cache_queue
  \/ parse_entries
  \/ flush_cache_queue
  \/ fetch_next_item
  \/ check_cache
  \/ retrieve
  \/ parse_cached
  \/ cache_next_item
  \/ metadata

SpecCLI == InitCLI /\ [][NextCLI]_vars

(***************************************************************************)
(* Properties                                                              *)
(***************************************************************************)

Has(op) == \E i \in DOMAIN log : log[i] = op

Count(op) == Cardinality({ i \in DOMAIN log : log[i] = op })

IsPrefix(s, t) == Len(s) <= Len(t) /\ SubSeq(t, 1, Len(s)) = s

Min(a, b) == IF a <= b THEN a ELSE b

Envelopes(items) == [ i \in 1..Len(items) |-> Envelope(items[i]) ]

LiveSteps == << "purge", "get", "push", "parse", "flush" >>

\* The operations of a live fetch come in the order purge, get, push, parse,
\* flush, and only then metadata and yields.
LiveOrder ==
  mode = "live" =>
    /\ LET n == Min(Len(log), Len(LiveSteps))
       IN  SubSeq(log, 1, n) = SubSeq(LiveSteps, 1, n)
    /\ \A i \in DOMAIN log : i > Len(LiveSteps) => log[i] \in { "meta", "yield" }
    /\ (delivered # <<>> \/ Has("yield")) => IsPrefix(LiveSteps, log)

\* C1: in every live fetch the steps happen in the order purge, network get,
\* push, parse, flush, and the flush happens before the first entry is
\* yielded; from the flush on the persistent cache does not change for the
\* rest of the call, wherever the consumer stops, so stopping after some
\* entries leaves the cache as iterating to the end leaves it.
C1_FlushBeforeFirstYield ==
  /\ [] LiveOrder
  /\ [][ (mode = "live" /\ Has("flush")) => cache' = cache ]_vars

\* A consumer stopped after one entry of a two-entry feed; the cache holds the
\* payload of this call, which differs from what it held before.
C1_Witness ==
  /\ mode = "live" /\ pc = "abandoned" /\ hasCache
  /\ Len(entries) = 2 /\ Len(delivered) = 1
  /\ IsPrefix(LiveSteps, log)
  /\ cache = << resp.text >>
  /\ cache # cacheAtStart

\* C2 as stated: no payload is committed until every parsed entry has had its
\* metadata computed without error, so every committed payload is one whose
\* entries all passed metadata extraction.
C2_Original ==
  (mode = "live" /\ Has("flush")) =>
    /\ Count("meta") = Len(entries)
    /\ \A i \in DOMAIN entries : MetadataError(entries[i]) = NoError

\* C2 amended: flush is called only after the parse succeeded and before the
\* metadata of any entry is computed; every committed payload is one that
\* parsed without error.
C2_FlushAfterParseOnly ==
  /\ (mode = "live" /\ Has("flush")) =>
       /\ ~ParseFails(raw_entries)
       /\ entries = parse_feed(raw_entries)
       /\ \E j \in DOMAIN log :
            /\ log[j] = "flush"
            /\ \E i \in 1..(j - 1) : log[i] = "parse"
            /\ \A i \in DOMAIN log : log[i] = "meta" => j < i
  /\ (mode = "live" /\ cache # cacheAtStart) => Has("flush")
  /\ ~CacheIsEmpty(cache) => ~ParseFails(Retrieve(cache))

\* A payload was committed and the metadata of one of its entries then failed.
C2_Witness ==
  /\ mode = "live" /\ hasCache /\ Has("flush")
  /\ pc = "done" /\ err \in MetadataErrors
  /\ cache = << raw_entries >>
  /\ cache # cacheAtStart

\* C3: after a successful live fetch with a cache configured, retrieve() on
\* the persistent cache returns exactly the raw payload the network served in
\* that run, whatever runs preceded it.
C3_CacheHoldsFetchedPayload ==
  (mode = "live" /\ hasCache /\ pc = "done" /\ err = NoError) =>
    /\ resp.status = 200
    /\ ~CacheIsEmpty(cache)
    /\ Retrieve(cache) = resp.text

\* A successful fetch of two entries over a cache that held another payload.
C3_Witness ==
  /\ mode = "live" /\ hasCache /\ pc = "done" /\ err = NoError
  /\ Len(delivered) = 2
  /\ cacheAtStart # <<>> /\ cacheAtStart # cache
  /\ Retrieve(cache) = resp.text

\* C4: while a live fetch has not reached flush, and so when it fails in the
\* network step or in parsing, the persistent cache is exactly as it was
\* before the run.
C4_FailureLeavesCache ==
  (mode = "live" /\ ~Has("flush")) => cache = cacheAtStart

\* A fetch failed in parsing with its payload pending; the cache still holds
\* the payload committed before.
C4_Witness ==
  /\ mode = "live" /\ hasCache /\ pc = "done" /\ err = "ParseError"
  /\ cache_queue # <<>>
  /\ cacheAtStart # <<>> /\ cache = cacheAtStart
  /\ committed # <<>> /\ Retrieve(cache) = committed[1]

\* Index of the first entry whose metadata fails, Len(items) + 1 when none does.
RECURSIVE FirstBadFrom(_, _)
FirstBadFrom(items, i) ==
  IF i > Len(items) \/ MetadataError(items[i]) # NoError THEN i
  ELSE FirstBadFrom(items, i + 1)

FirstBad(items) == FirstBadFrom(items, 1)

\* C5 as stated: when metadata extraction fails for an entry of a live fetch,
\* the consumer receives no entries from that fetch.
C5_Original ==
  (mode = "live" /\ err \in MetadataErrors) => delivered = <<>>

\* C5 amended: when metadata extraction fails for an entry of a live fetch,
\* the fetch is aborted at that entry: the consumer has received exactly the
\* entries that precede the first failing one, in feed order, and receives
\* nothing from the failing entry on; with no failing entry every entry is
\* delivered.
C5_AbortAtFailingEntry ==
  (mode = "live" /\ pc = "done" /\ Has("flush")) =>
    LET k == FirstBad(entries)
    IN  /\ delivered = Envelopes(SubSeq(entries, 1, k - 1))
        /\ err = IF k <= Len(entries) THEN MetadataError(entries[k]) ELSE NoError

\* The second entry of a feed failed after the first was delivered.
C5_Witness ==
  /\ mode = "live" /\ pc = "done" /\ err \in MetadataErrors
  /\ Len(entries) = 2 /\ Len(delivered) = 1
  /\ delivered[1].entry = entries[1]

\* C6: a replay fetch on a backend built without a cache fails with
\* CacheError, yields no entry and performs no network request.
C6_ReplayWithoutCache ==
  (mode = "replay" /\ ~hasCache) =>
    /\ pc \in { "start", "check", "done", "abandoned" }
    /\ delivered = <<>>
    /\ ~Has("get") /\ resp = NoResponse
    /\ pc = "done" => err = "CacheError"

\* The replay of a backend without a cache has failed.
C6_Witness ==
  /\ mode = "replay" /\ ~hasCache /\ pc = "done"
  /\ err = "CacheError" /\ log = << "check" >>

\* C7: a replay fetch parses the most recently committed payload: what it
\* delivers is a prefix of the records of the entries of the payload fetched
\* by the last live fetch that committed, and all of them when it ends
\* without error.
C7_ReplayLatestPayload ==
  (mode = "replay" /\ Has("retrieve") /\ err # "NotFound") =>
    /\ committed # <<>>
    /\ raw_entries = committed[1]
    /\ IsPrefix(delivered, Envelopes(parse_feed(committed[1])))
    /\ (pc = "done" /\ err = NoError) =>
         delivered = Envelopes(parse_feed(committed[1]))

\* Two live fetches committed payloads with different entries; the replay
\* delivered the entries of the second.
C7_Witness ==
  /\ mode = "replay" /\ pc = "done" /\ err = NoError
  /\ replaced
  /\ delivered # <<>>
  /\ delivered = Envelopes(parse_feed(committed[1]))

\* C8: a replay fetch, from its creation to its end, whether it succeeds or
\* fails, changes neither the persistent cache nor the pending queue, and
\* performs no network request and no purge, push or flush.
C8_ReplayChangesNothing ==
  /\ [][ mode' = "replay" =>
           /\ cache' = cache
           /\ cache_queue' = cache_queue
           /\ resp' = NoResponse ]_vars
  /\ [] ( mode = "replay" =>
            \A i \in DOMAIN log : log[i] \notin { "purge", "get", "push", "flush" } )

\* A replay delivered entries while a payload of a failed live fetch was
\* pending in the queue.
C8_Witness ==
  /\ mode = "replay" /\ pc = "done" /\ err = NoError
  /\ delivered # <<>>
  /\ cache_queue # <<>>
  /\ cache = cacheAtStart

\* C9: two replay fetches run to their end one after the other, with no live
\* fetch in between, deliver the identical sequence of records and end the
\* same way.
C9_ReplayIdempotent ==
  (mode = "replay" /\ pc = "done" /\ prevReplay # <<>>) =>
    /\ delivered = prevReplay[1].out
    /\ err = prevReplay[1].err

\* The second of two replays delivered the same two records as the first.
C9_Witness ==
  /\ mode = "replay" /\ pc = "done" /\ prevReplay # <<>>
  /\ Len(delivered) = 2
  /\ delivered = prevReplay[1].out

ResponseFails(r) == r = ConnectionFailure \/ RaisesForStatus(r)

\* C10: a live fetch issues at most one network request, exactly one once it
\* passed the network step; when that request fails the fetch ends at once
\* with the error of the client, and nothing is pushed, parsed, flushed or
\* yielded.
C10_NetworkFailureNotRetried ==
  mode = "live" =>
    /\ Count("get") <= 1
    /\ Len(log) >= 2 => Count("get") = 1
    /\ (resp # NoResponse /\ ResponseFails(resp)) =>
         /\ pc = "done"
         /\ err = IF resp = ConnectionFailure THEN "ConnectionError" ELSE "HTTPError"
         /\ log = << "purge", "get" >>
         /\ delivered = <<>>
         /\ cache_queue = <<>>
         /\ cache = cacheAtStart
    /\ err \in NetworkErrors => ResponseFails(resp)

\* A fetch ended with the HTTP error of a 404 response, the cache holding the
\* payload of an earlier run.
C10_Witness ==
  /\ mode = "live" /\ pc = "done" /\ err = "HTTPError"
  /\ resp.status = 404
  /\ log = << "purge", "get" >>
  /\ cache # <<>>

\* C12 as stated: a live or replay fetch emits exactly the entries the parser
\* returned: the emitted sequence has the length of the parsed sequence and
\* its i-th record wraps the i-th parsed entry.
C12_Original ==
  (mode \in { "live", "replay" } /\ pc = "done") =>
    /\ Len(delivered) = Len(entries)
    /\ \A i \in DOMAIN delivered : delivered[i].entry = entries[i]

\* C12 amended: at every moment the records emitted so far wrap the first
\* parsed entries, one record per entry and in feed order; a fetch that runs
\* to its end without error has emitted all of them, one that is aborted by a
\* metadata error or stopped by the consumer only a prefix.
C12_EmitsParsedInOrder ==
  mode \in { "live", "replay" } =>
    /\ Len(delivered) <= Len(entries)
    /\ \A i \in DOMAIN delivered : delivered[i].entry = entries[i]
    /\ (Has("parse") /\ err # "ParseError") => entries = raw_entries.items
    /\ (pc = "done" /\ err = NoError) => Len(delivered) = Len(entries)

\* A replay ran to its end and delivered two different entries in feed order.
C12_Witness ==
  /\ mode = "replay" /\ pc = "done" /\ err = NoError
  /\ Len(entries) = 2 /\ Len(delivered) = 2
  /\ entries[1] # entries[2]
  /\ delivered[1].entry = raw_entries.items[1]
  /\ delivered[2].entry = raw_entries.items[2]

\* C13: when the fetched payload is the empty string, parsing yields no
\* entries and the live fetch still pushes and then commits that payload,
\* yields nothing and ends without error.
C13_EmptyPayloadCommitted ==
  (mode = "live" /\ resp.status = 200 /\ resp.text = EmptyString) =>
    /\ err = NoError
    /\ delivered = <<>>
    /\ pc \in { "push", "parse", "flush", "loop", "done" }
    /\ Has("parse") => entries = <<>>
    /\ (Has("push") /\ ~Has("flush")) => cache_queue = << EmptyString >>
    /\ Has("flush") =>
         /\ cache_queue = <<>>
         /\ hasCache => cache = << EmptyString >>
    /\ pc = "done" => log = LiveSteps

\* A fetch of the empty string ended; the cache now holds the empty payload
\* in place of what it held before.
C13_Witness ==
  /\ mode = "live" /\ hasCache /\ pc = "done" /\ err = NoError
  /\ resp.status = 200 /\ resp.text = EmptyString
  /\ log = LiveSteps /\ delivered = <<>>
  /\ cache = << EmptyString >>
  /\ cacheAtStart # cache

\* C14: every live fetch call runs its own cycle: it starts with a purge, and
\* does at most one purge, one network request, one push and one flush, a
\* call that yielded or ended without error having done each once; the
\* pending queue never holds more than one payload, holds the payload of this
\* call between push and flush, is empty after the flush, and the flush
\* commits the payload fetched in this call.
C14_OneCyclePerCall ==
  /\ Len(cache_queue) <= 1
  /\ mode = "live" =>
       /\ \A i \in DOMAIN LiveSteps : Count(LiveSteps[i]) <= 1
       /\ log # <<>> => log[1] = "purge"
       /\ (pc = "yielded" \/ (pc = "done" /\ err = NoError)) =>
            \A i \in DOMAIN LiveSteps : Count(LiveSteps[i]) = 1
       /\ (Has("purge") /\ ~Has("push")) => cache_queue = <<>>
       /\ (Has("push") /\ ~Has("flush")) => cache_queue = << resp.text >>
       /\ Has("flush") =>
            /\ cache_queue = <<>>
            /\ hasCache => cache = << resp.text >>

\* A fetch made while the payload of a failed fetch was pending ended without
\* error, its own payload committed and the queue empty.
C14_Witness ==
  /\ mode = "live" /\ hasCache /\ pc = "done" /\ err = NoError
  /\ queueAtStart # <<>>
  /\ queueAtStart # << resp.text >>
  /\ delivered # <<>>
  /\ cache = << resp.text >>
  /\ cache_queue = <<>>

\* Days from 1970-01-01 to the given date of the proleptic Gregorian calendar.
DaysFromCivil(y, m, d) ==
  LET yy  == IF m <= 2 THEN y - 1 ELSE y
      era == yy \div 400
      yoe == yy - era * 400
      mp  == IF m > 2 THEN m - 3 ELSE m + 9
      doy == (153 * mp + 2) \div 5 + d - 1
      doe == yoe * 365 + yoe \div 4 - yoe \div 100 + doy
  IN  era * 146097 + doe - 719468

\* Seconds since the epoch of the UTC instant a 'published' string names.
UtcSeconds(s) ==
  CASE s = "2020-01-01T00:00:00Z" -> DaysFromCivil(2020, 1, 1) * 86400
    [] s = "2020-01-02T00:00:00Z" -> DaysFromCivil(2020, 1, 2) * 86400

\* C15: every record emitted by a live or replay fetch carries the entry and
\* the three metadata fields: id is the link of the entry, category is
\* "entry", updated_on is the UNIX timestamp of the entry's published date.
C15_RecordMetadata ==
  \A i \in DOMAIN delivered :
    LET r == delivered[i]
    IN  /\ DOMAIN r = { "id", "updated_on", "category", "entry" }
        /\ r.entry = entries[i]
        /\ r.entry.link # Absent
        /\ r.id = r.entry.link
        /\ r.category = "entry"
        /\ r.entry.published \in ValidDates
        /\ r.updated_on = UtcSeconds(r.entry.published)

\* The two-entry feed of the spec's scenario was delivered.
C15_Witness ==
  /\ mode = "live" /\ pc = "done" /\ err = NoError
  /\ Len(delivered) = 2
  /\ delivered[1].id = "http://x/1" /\ delivered[1].updated_on = 1577836800
  /\ delivered[2].id = "http://x/2" /\ delivered[2].updated_on = 1577923200
  /\ delivered[1].category = "entry" /\ delivered[2].category = "entry"

\* C16: making a generator (fetch, fetch_from_cache) has no effect: until
\* the first pull nothing is purged, requested, pushed, flushed or read and no
\* error is raised, and dropping it then leaves everything as it was; all the
\* cache and network effects of a live fetch happen within the first pull:
\* once an entry was yielded the call changes neither the cache, the queue
\* nor the response.
C16_NoEffectBeforeFirstPull ==
  /\ [] ( pc = "start" =>
            /\ log = <<>> /\ resp = NoResponse /\ err = NoError
            /\ delivered = <<>> /\ entries = <<>>
            /\ cache = cacheAtStart /\ cache_queue = queueAtStart )
  /\ [][ (pc' = "start" \/ (pc = "start" /\ pc' = "abandoned")) =>
           UNCHANGED << cache, cache_queue >> ]_vars
  /\ [][ (mode = "live" /\ delivered # <<>> /\ pc' # "start") =>
           /\ UNCHANGED << cache, cache_queue, resp >>
           /\ \A i \in DOMAIN log' : i > Len(log) => log'[i] \in { "meta", "yield" } ]_vars

\* A live generator was made while a payload was pending and dropped without
\* a pull: the queue and the cache are as they were.
C16_Witness ==
  /\ mode = "live" /\ pc = "abandoned" /\ log = <<>>
  /\ queueAtStart # <<>> /\ cache_queue = queueAtStart
  /\ cache # <<>> /\ cache = cacheAtStart

\* C11: whenever run surfaces an error after the cache was mutated (the
\* command was built with a cache, so backup() or clean() was done, or a
\* flush committed), recover() has been invoked on the cache; this for every
\* error kind, HTTP errors and I/O errors included.
C11_RecoverOnAnyError ==
  (cli = "raised" /\ hasCache) => \E i \in DOMAIN ops : ops[i] = "recover"

\* C17: a command built with caching invokes exactly one of clean() (with
\* clean_cache) and backup() (otherwise), once, as its first cache operation
\* and before any fetch starts; a command built with no_cache has a backend
\* without a cache and never invokes clean, backup, recover or a commit, on
\* the error paths of run too, so the cache stays as it was.
C17_CacheSetupOnce ==
  /\ [] ( cli = "new" => (ops = <<>> /\ pc = "idle" /\ log = <<>>) )
  /\ [] ( (cli # "new" /\ ~args.no_cache) =>
            /\ hasCache
            /\ Len(ops) >= 1
            /\ ops[1] = IF args.clean_cache THEN "clean" ELSE "backup"
            /\ \A i \in DOMAIN ops : i > 1 => ops[i] = "recover" )
  /\ [] ( (cli # "new" /\ args.no_cache) =>
            /\ ~hasCache
            /\ ops = <<>> /\ backup = <<>> /\ committed = <<>>
            /\ \A i \in DOMAIN log : log[i] # "retrieve" )
  /\ [][ args.no_cache => cache' = cache ]_vars

\* A command built with no_cache over a cache path that holds a payload
\* surfaced a metadata error: no cache operation was invoked.
C17_Witness ==
  /\ args.no_cache /\ cli = "raised" /\ err \in MetadataErrors
  /\ Has("flush")
  /\ ops = <<>> /\ cache # <<>>

====
